---- MODULE Spec2Model ----
(***************************************************************************)
(* Mindful Reframe: the reframing-session routes of server/routes.ts, the  *)
(* chatReframe service, the rule helpers that screen user input and the    *)
(* reframing-session storage (in-memory and database backends).            *)
(*                                                                         *)
(* Texts are sequences of tokens: a token is a word, a complete HTML tag   *)
(* or a blank run; consecutive words are separated by one implicit space.  *)
(* JavaScript values that may be undefined or null are written as the      *)
(* strings "undefined" / "null"; an optional number is <<>> when undefined *)
(* and <<n>> when set.  Timestamps are abstracted to the marker "date".    *)
(***************************************************************************)
EXTENDS Integers, Sequences, FiniteSets, TLC

VARIABLES
    env,            \* process.env: which variables are set
    dbInit,         \* position of the initializeDatabase() promise
    dbAvailable,    \* storage.ts: let dbAvailable
    memSessions,    \* MemStorage.reframingSessions (id = index)
    dbSessions,     \* rows of the reframing_sessions table (id = index)
    inflight,       \* chat requests suspended at the await of chatReframe
    resp,           \* the HTTP response on its way to the client
    respTo,         \* the Reframe page that awaits resp (0: another client)
    pages,          \* the state of the Reframe pages (client/src/pages/reframe)
    counted,        \* history: per store and session, the chat calls that
                    \* answered 200 without being screened
    used,           \* history: what the exploration has spent of its bounds
    limits,         \* the bounds of the exploration (fixed by Init)
    journal         \* the journal sessions of both backends, and the analyze
                    \* requests suspended at the await of analyzeJournalEntry

vars == <<env, dbInit, dbAvailable, memSessions, dbSessions, inflight, resp, respTo, pages,
          counted, used, limits, journal>>

----------------------------------------------------------------------------
(* Bounds of the exploration *)

MaxSessions == 1

\* Spec: few calls, every kind of input and of adapter outcome
MaxInFlight == 1
MaxChats == 2
MaxScreened == 1
MaxFailures == 1
MaxChatsBeforeDb == 1

\* SpecDeep: one long conversation, past the turn ceiling
DeepInFlight == 1
DeepChats == 7
DeepScreened == 0
DeepFailures == 0
DeepChatsBeforeDb == 0

WideLimits ==
    [ inflight |-> MaxInFlight, chats |-> MaxChats, screened |-> MaxScreened,
      failures |-> MaxFailures, chatsBeforeDb |-> MaxChatsBeforeDb,
      bodyExtras |-> FALSE, twoMessages |-> FALSE, reframePage |-> FALSE,
      bothChecks |-> FALSE ]

DeepLimits ==
    [ inflight |-> DeepInFlight, chats |-> DeepChats, screened |-> DeepScreened,
      failures |-> DeepFailures, chatsBeforeDb |-> DeepChatsBeforeDb,
      bodyExtras |-> FALSE, twoMessages |-> FALSE, reframePage |-> FALSE,
      bothChecks |-> FALSE ]

\* SpecStart: start requests that carry the optional fields of the insert
\* schema, followed by a short conversation
StartChats == 2

StartLimits ==
    [ inflight |-> DeepInFlight, chats |-> StartChats, screened |-> DeepScreened,
      failures |-> DeepFailures, chatsBeforeDb |-> DeepChatsBeforeDb,
      bodyExtras |-> TRUE, twoMessages |-> FALSE, reframePage |-> FALSE,
      bothChecks |-> FALSE ]

\* SpecPair: two chat handlers running at the same time
PairInFlight == 2
PairChats == 2

PairLimits ==
    [ inflight |-> PairInFlight, chats |-> PairChats, screened |-> DeepScreened,
      failures |-> DeepFailures, chatsBeforeDb |-> DeepChatsBeforeDb,
      bodyExtras |-> FALSE, twoMessages |-> TRUE, reframePage |-> FALSE,
      bothChecks |-> FALSE ]

\* SpecPage: the sessions are started from Reframe pages, whose state is
\* followed, and the model's answers may carry the pacing flag
PageChats == 3

PageLimits ==
    [ inflight |-> DeepInFlight, chats |-> PageChats, screened |-> DeepScreened,
      failures |-> DeepFailures, chatsBeforeDb |-> DeepChatsBeforeDb,
      bodyExtras |-> FALSE, twoMessages |-> FALSE, reframePage |-> TRUE,
      bothChecks |-> FALSE ]

\* SpecPageDeep: a Reframe page through six exchanges
PageDeepChats == 6

PageDeepLimits ==
    [ inflight |-> DeepInFlight, chats |-> PageDeepChats, screened |-> DeepScreened,
      failures |-> DeepFailures, chatsBeforeDb |-> DeepChatsBeforeDb,
      bodyExtras |-> FALSE, twoMessages |-> FALSE, reframePage |-> TRUE,
      bothChecks |-> FALSE ]

\* SpecScreen: screened messages, one of them matching both checks
ScreenChats == 2
ScreenScreened == 2

ScreenLimits ==
    [ inflight |-> DeepInFlight, chats |-> ScreenChats, screened |-> ScreenScreened,
      failures |-> DeepFailures, chatsBeforeDb |-> DeepChatsBeforeDb,
      bodyExtras |-> FALSE, twoMessages |-> FALSE, reframePage |-> FALSE,
      bothChecks |-> TRUE ]

\* SpecAnalyze: analyze requests, two handlers running at the same time
AnalyzeInFlight == 2
AnonymousAnalyses == 1

\* the user ids that start sessions, and the user ids that send messages
Users == { 1 }
Requesters == { 1, 2 }
Slots == 1 .. limits.inflight

----------------------------------------------------------------------------
(* shared/rules.js *)

maxJournalEntryLength == 5000
maxSavedSessionsPerUser == 20
dailyTokenCapPerUser == 20000

ALLOWED_OPERATIONS ==
    { "detectCognitiveDistortions", "summarizeJournalEntries",
      "guideReframingProcess", "generateVisualizationPrompts",
      "provideSupportiveReflection" }

CrisisDetectionEnabled == TRUE

triggerPhrases ==
    { <<"want", "to", "die">>, <<"kill", "myself">>, <<"end", "my", "life">>,
      <<"not", "worth", "living">>, <<"suicide">>, <<"hurt", "myself">> }

responseTemplate == <<"I'm really sorry you're feeling this way. You are not alone.">>

blockJailbreakAttempts == TRUE

jailbreakPhrases ==
    { <<"ignore", "previous", "instructions">>,
      <<"pretend", "to", "be", "a", "therapist">>,
      <<"act", "as", "a", "doctor">>, <<"forget", "your", "guidelines">>,
      <<"you", "are", "now", "a">>, <<"system", "prompt:">> }

sanitizeBeforeAI == TRUE

blockHtmlTags == TRUE

----------------------------------------------------------------------------
(* Text primitives *)

Blank == " "

IsTag(tok) == tok \in { "<b>", "</b>" }

\* String.prototype.toLowerCase on one token
LowerTok(tok) ==
    CASE tok = "WANT" -> "want"
      [] tok = "DIE" -> "die"
      [] tok = "Ignore" -> "ignore"
      [] OTHER -> tok

toLowerCase(text) == [i \in 1 .. Len(text) |-> LowerTok(text[i])]

\* String.prototype.includes: phrase occurs as a contiguous run of text
includes(text, phrase) ==
    \E i \in 0 .. (Len(text) - Len(phrase)) :
        \A j \in 1 .. Len(phrase) : text[i + j] = phrase[j]

\* input.replace(/<[^>]*>/g, '')
StripTags(text) == SelectSeq(text, LAMBDA tok : ~IsTag(tok))

\* String.prototype.substring(0, n)
substring(text, n) == IF Len(text) > n THEN SubSeq(text, 1, n) ELSE text

RECURSIVE TrimLeft(_)
TrimLeft(text) ==
    IF text # <<>> /\ Head(text) = Blank THEN TrimLeft(Tail(text)) ELSE text

RECURSIVE TrimRight(_)
TrimRight(text) ==
    IF text # <<>> /\ text[Len(text)] = Blank
    THEN TrimRight(SubSeq(text, 1, Len(text) - 1))
    ELSE text

\* String.prototype.trim
trim(text) == TrimRight(TrimLeft(text))

----------------------------------------------------------------------------
(* Optional JavaScript values: None is undefined/null, Some(v) a value *)

None == <<>>
Some(v) == <<v>>

\* obj.key of a JavaScript object: undefined when the property is absent
Prop(obj, key) == IF key \in DOMAIN obj THEN obj[key] ELSE None

\* truthiness of an optional text, boolean and number
TruthyText(o) == o # None /\ o[1] # <<>>
TruthyBool(o) == o # None /\ o[1] = TRUE
TruthyNum(o) == o # None /\ o[1] # 0

\* x || d on an optional number
OrElse(o, d) == IF TruthyNum(o) THEN o[1] ELSE d

ResponseFailed(route, status, body) ==
    [route |-> route, status |-> 500, body |-> body, logged |-> {}]

\* an HTTP answer; NoResponse when none is on its way.  logged is what the
\* handler wrote with console.error before it answered
Response(route, status, body) ==
    [route |-> route, status |-> status, body |-> body, logged |-> {}]

\* console.error(..., error) followed by the answer
Logged(response, errors) == [response EXCEPT !.logged = errors]

NoResponse == Response("none", 0, [error |-> ""])

\* a handler slot with no chat call under way
Idle == [state |-> "idle"]

----------------------------------------------------------------------------
(* shared/rule-helpers.ts *)

isAllowedAIUseCase(taskName) == taskName \in ALLOWED_OPERATIONS

isCrisisText(input) ==
    IF ~CrisisDetectionEnabled THEN FALSE
    ELSE \E phrase \in triggerPhrases : includes(toLowerCase(input), phrase)

shouldBlockPromptInjection(input) ==
    IF ~blockJailbreakAttempts THEN FALSE
    ELSE \E phrase \in jailbreakPhrases : includes(toLowerCase(input), phrase)

sanitizeUserInput(input) ==
    IF ~sanitizeBeforeAI THEN input
    ELSE trim(substring(StripTags(input), maxJournalEntryLength))

getCrisisResponse == responseTemplate

hasReachedSessionLimit(userSessionCount) ==
    userSessionCount >= maxSavedSessionsPerUser

\* validateJournalEntry(entry).isValid
validateJournalEntry(entry) ==
    /\ ~(entry = <<>> \/ trim(entry) = <<>>)
    /\ ~(Len(entry) > maxJournalEntryLength)
    /\ ~(blockHtmlTags /\ \E i \in 1 .. Len(entry) : IsTag(entry[i]))

----------------------------------------------------------------------------
(* chatReframe (openai-service) *)

RepromptMessage == <<"I noticed something unusual in your message.">>
FallbackMessage == <<"I'm having trouble right now.">>

ModelReply == <<"What evidence supports this thought?">>
ModelReframe == <<"I am learning and that is enough.">>

\* What openai.chat.completions.create resolves to: the call rejects (error,
\* timeout), or choices[0].message.content is null, or a text that JSON.parse
\* rejects, or a text that parses to an object.
AdapterOutcomes ==
    { [kind |-> "rejects"], [kind |-> "null"], [kind |-> "unparseable"] }
    \cup
    { [kind |-> "json", parsed |-> o] :
        o \in ( [ message : {Some(ModelReply)},
                  isComplete : {Some(TRUE), Some(FALSE)},
                  finalReframedThought : {None, Some(ModelReframe)} ]
                \cup
                { [ message |-> None, isComplete |-> Some(TRUE),
                    finalReframedThought |-> Some(ModelReframe) ] }
                \cup
                \* JSON.parse keeps every key of the model's object
                (IF limits.reframePage
                 THEN { [ message |-> Some(ModelReply), isComplete |-> Some(FALSE),
                          finalReframedThought |-> None,
                          showPacingOptions |-> Some(TRUE) ] }
                 ELSE {}) ) }

Threw(msg) == [threw |-> TRUE, error |-> msg]
Returned(obj) == [threw |-> FALSE, value |-> obj]

ChatCompletionRethrows(adapter) ==
    IF adapter.kind = "json" /\ TruthyText(adapter.parsed.message)
    THEN Returned(adapter.parsed)
    ELSE Threw("Failed to process reframing chat")

\* the try block of chatReframe: the request to the model and the parse of
\* its answer; any throw inside is caught and replaced by the fallback
ChatCompletion(adapter) ==
    IF adapter.kind = "json" /\ TruthyText(adapter.parsed.message)
    THEN Returned(adapter.parsed)
    ELSE Returned([message |-> Some(FallbackMessage), isComplete |-> Some(FALSE)])

chatReframeInjectionFirst(selectedThought, distortionType, reframingMethod, userMessage, chatHistory, userContext, userTokensUsedToday, adapter) ==
    IF ~env.OPENAI_API_KEY
    THEN Threw("OpenAI API key not configured")
    ELSE IF userTokensUsedToday >= dailyTokenCapPerUser
    THEN Threw("Daily AI usage limit reached. Please try again tomorrow.")
    ELSE IF shouldBlockPromptInjection(sanitizeUserInput(userMessage))
    THEN Returned([message |-> Some(RepromptMessage), isComplete |-> Some(FALSE)])
    ELSE IF isCrisisText(sanitizeUserInput(userMessage))
    THEN Returned([message |-> Some(getCrisisResponse), isComplete |-> Some(FALSE)])
    ELSE ChatCompletion(adapter)

chatReframe(selectedThought, distortionType, reframingMethod, userMessage, chatHistory, userContext, userTokensUsedToday, adapter) ==
    IF ~isAllowedAIUseCase("guideReframingProcess")
    THEN Threw("Reframing guidance is not currently allowed")
    ELSE IF ~env.OPENAI_API_KEY
    THEN Threw("OpenAI API key not configured")
    ELSE IF userTokensUsedToday >= dailyTokenCapPerUser
    THEN Threw("Daily AI usage limit reached. Please try again tomorrow.")
    ELSE LET sanitizedMessage == sanitizeUserInput(userMessage) IN
         IF isCrisisText(sanitizedMessage)
         THEN Returned([message |-> Some(getCrisisResponse),
                        isComplete |-> Some(FALSE)])
         ELSE IF shouldBlockPromptInjection(sanitizedMessage)
         THEN Returned([message |-> Some(RepromptMessage),
                        isComplete |-> Some(FALSE)])
         ELSE ChatCompletion(adapter)

----------------------------------------------------------------------------
(* shared/schema.ts and server/storage.ts: reframing sessions *)

turnCountDefault == 0
maxTurnsDefault == 12

\* JSON.stringify / JSON.parse of a ChatMessage {role, content, timestamp}
JSONstringify(msg) == <<"json", msg.role, msg.content>>
JSONparse(str) == [role |-> str[2], content |-> str[3]]

\* MemStorage.createReframingSession: the record built from insertSession
MemNewSession(insertSession) ==
    [ userId |-> insertSession.userId,
      selectedThought |-> insertSession.selectedThought,
      distortionType |-> insertSession.distortionType,
      reframingMethod |-> insertSession.reframingMethod,
      chatHistory |-> insertSession.chatHistory,
      finalReframedThought |->
          IF TruthyText(insertSession.finalReframedThought)
          THEN insertSession.finalReframedThought ELSE None,
      isCompleted |-> insertSession.isCompleted,
      turnCount |-> None,
      maxTurns |-> None,
      completedAt |-> None ]

\* DatabaseStorage.createReframingSession: the row inserted, with the column
\* defaults of the reframing_sessions table for the values not given
DbNewSession(insertSession) ==
    [ userId |-> insertSession.userId,
      selectedThought |-> insertSession.selectedThought,
      distortionType |-> insertSession.distortionType,
      reframingMethod |-> insertSession.reframingMethod,
      chatHistory |-> insertSession.chatHistory,
      finalReframedThought |-> insertSession.finalReframedThought,
      isCompleted |-> insertSession.isCompleted,
      turnCount |-> IF insertSession.turnCount = None
                    THEN Some(turnCountDefault) ELSE insertSession.turnCount,
      maxTurns |-> IF insertSession.maxTurns = None
                   THEN Some(maxTurnsDefault) ELSE insertSession.maxTurns,
      completedAt |-> None ]

\* { ...session, ...updates } and UPDATE ... SET updates
MergeReplaces(session, updates) ==
    [f \in DOMAIN session |->
        IF f \in DOMAIN updates THEN updates[f]
        ELSE IF f \in {"selectedThought", "reframingMethod"} THEN None
        ELSE session[f]]

\* { ...session, ...updates } / db.update(...).set(updates)
Merge(session, updates) ==
    [f \in DOMAIN session |->
        IF f \in DOMAIN updates THEN updates[f] ELSE session[f]]

\* MemStorage / DatabaseStorage.updateReframingSession on one table
UpdateIn(table, sessionId, updates) ==
    IF sessionId \in DOMAIN table
    THEN [table EXCEPT ![sessionId] = Merge(table[sessionId], updates)]
    ELSE table

\* DynamicStorage: the table the call is dispatched to
CurrentSessions == IF dbAvailable THEN dbSessions ELSE memSessions

\* DynamicStorage.getReframingSessionById
getReframingSessionById(sessionId) ==
    IF sessionId \in DOMAIN CurrentSessions
    THEN Some(CurrentSessions[sessionId]) ELSE None

\* initializeDatabase(): started when the module is loaded, it resolves
\* while requests are already served; connected is the outcome of
\* checkDatabaseConnection() && process.env.DATABASE_URL
InitializeDatabase ==
    /\ resp = NoResponse
    /\ dbInit = "pending"
    /\ used.chats <= limits.chatsBeforeDb
    /\ \E connected \in BOOLEAN : dbAvailable' = connected
    /\ dbInit' = "done"
    /\ UNCHANGED <<env, memSessions, dbSessions, inflight, resp, respTo, pages,
                   counted, used, limits, journal>>

----------------------------------------------------------------------------
(* client: the Reframe page *)

\* whether other distorted thoughts of the journal entry remain to be
\* reframed: a fact of the caller's, the page has no input for it
AlternativeThoughts == BOOLEAN

\* the page as it is opened: its URL parameters and its useState defaults
NewPage(body, alternatives) ==
    [ location |-> "/reframe",
      userId |-> body.userId,
      thought |-> body.selectedThought,
      distortion |-> body.distortionType,
      hasAlternativeThoughts |-> alternatives,
      reframingSessionId |-> None,
      session |-> None,
      showPacingOptions |-> FALSE,
      currentTurnCount |-> 0,
      maxTurns |-> 12,
      completionSummary |-> None,
      toast |-> "" ]

\* GET /api/reframing/:sessionId as the page's query reads it: the data of
\* the query, kept as it was when the request fails
FetchSession(page, sessionId) ==
    LET found == getReframingSessionById(sessionId)
    IN  IF found # None /\ found[1].userId = page.userId
        THEN Some([ isCompleted |-> found[1].isCompleted,
                    finalReframedThought |-> found[1].finalReframedThought ])
        ELSE page.session

\* startSessionMutation.onSuccess, and the session query it enables
StartOnSuccess(page, data) ==
    [page EXCEPT !.reframingSessionId = Some(data.sessionId),
                 !.session = FetchSession(page, data.sessionId),
                 !.toast = "Reframing Started"]

\* sendMessageMutation.onSuccess
SendOnSuccess(page, response) ==
    LET completes == /\ TruthyBool(response.isComplete)
                     /\ TruthyText(response.finalReframedThought)
    IN  [page EXCEPT
            !.session = FetchSession(page, page.reframingSessionId[1]),
            !.currentTurnCount = response.turnCount,
            !.maxTurns = response.maxTurns,
            !.showPacingOptions =
                IF \/ TruthyBool(response.showPacingOptions)
                   \/ TruthyBool(response.reachedTurnLimit)
                THEN TRUE ELSE @,
            !.completionSummary =
                IF completes
                THEN Some([ originalThought |-> page.thought,
                            distortion |-> page.distortion,
                            finalReframe |-> response.finalReframedThought[1] ])
                ELSE @,
            !.toast = IF completes THEN "Reframing Complete!" ELSE @]

\* sendMessageMutation.onError
SendOnError(page) == [page EXCEPT !.toast = "Message Failed"]

Affirmation ==
    "You've done great work on this thought - Here's what you're learning to believe instead."

\* what the CompletionSummaryCard displays
CompletionSummaryCard(originalThought, distortion, finalReframe) ==
    [ originalThought |-> originalThought,
      distortionType |-> distortion,
      finalReframedThought |-> finalReframe,
      affirmation |-> Affirmation ]

\* the buttons the PacingOptionsCard displays
PacingOptionsCard(turnCount, maxTurns, isAtLimit) ==
    (IF ~isAtLimit THEN { "keepReframing" } ELSE {})
    \cup { "differentThought", "createVisualization" }

\* the render of the page: the summary card and the pacing menu it shows
SessionShown(page) ==
    page.location = "/reframe" /\ page.reframingSessionId # None /\ page.session # None

SummaryShown(page) ==
    IF SessionShown(page) /\ page.completionSummary # None
    THEN Some(CompletionSummaryCard(page.completionSummary[1].originalThought,
                                    page.completionSummary[1].distortion,
                                    page.completionSummary[1].finalReframe))
    ELSE None

MenuShown(page) ==
    IF SessionShown(page) /\ page.showPacingOptions /\ ~page.session[1].isCompleted
    THEN PacingOptionsCard(page.currentTurnCount, page.maxTurns,
                           page.currentTurnCount >= page.maxTurns)
    ELSE {}

\* sendMessageMutation.isPending: a chat request of the page is under way
\* or its answer has not been handled yet
IsPending(p) ==
    \/ \E slot \in Slots : inflight[slot] # Idle /\ inflight[slot].page = p
    \/ resp # NoResponse /\ resp.route = "chat" /\ respTo = p

FormShownDespiteMenu(p) ==
    /\ SessionShown(pages[p])
    /\ ~pages[p].session[1].isCompleted
    /\ ~IsPending(p)

\* the message form is rendered and its Send button is enabled
FormShown(p) ==
    /\ SessionShown(pages[p])
    /\ ~pages[p].session[1].isCompleted
    /\ ~pages[p].showPacingOptions
    /\ ~IsPending(p)

\* the senders a chat request can come from: a page whose form is shown
\* for that session and user, or another client of the API (0)
PagesFor(req) ==
    { 0 } \cup { p \in DOMAIN pages :
                    /\ FormShown(p)
                    /\ pages[p].reframingSessionId = req.sessionId
                    /\ pages[p].userId = req.userId }

----------------------------------------------------------------------------
(* server/routes.ts: POST /api/reframing/start *)

ReframingMethodEnum ==
    { "evidenceCheck", "alternativePerspectives", "balancedThinking",
      "compassionateSelf", "actionOriented" }

Thought == <<"I", "always", "fail">>
TaggedThought == <<"<b>", "I", "always", "fail", "</b>">>
Distortion == <<"Overgeneralization">>

\* request bodies tried against the start route
StartBodies ==
    [ userId : Users,
      selectedThought : { <<>>, Thought, TaggedThought },
      distortionType : { Distortion },
      reframingMethod : { "evidenceCheck", "selfCompassion" },
      isCompleted : IF limits.bodyExtras THEN { None, Some(TRUE) } ELSE { None },
      turnCount : IF limits.bodyExtras THEN { None, Some(1) } ELSE { None },
      maxTurns : IF limits.bodyExtras THEN { None, Some(dailyTokenCapPerUser) }
                 ELSE { None },
      finalReframedThought :
          IF limits.bodyExtras THEN { None, Some(ModelReframe) } ELSE { None } ]

\* the paths of the issues of the ZodError that createReframingSchema.parse
\* throws
ZodIssues(body) ==
    { path \in {"selectedThought", "distortionType", "reframingMethod"} :
        \/ path = "selectedThought" /\ body.selectedThought = <<>>
        \/ path = "distortionType" /\ body.distortionType = <<>>
        \/ path = "reframingMethod" /\ body.reframingMethod \notin ReframingMethodEnum }

createReframingSchemaAnyMethod(body) ==
    body.selectedThought # <<>> /\ body.distortionType # <<>>

\* createReframingSchema.parse(req.body) does not throw
createReframingSchemaAccepts(body) == ZodIssues(body) = {}

StartSession(body) ==
    /\ resp = NoResponse
    /\ IF ~createReframingSchemaAccepts(body)
       THEN /\ resp' = Logged(Response("start", 500,
                                [error |-> "Failed to start reframing session"]),
                            ZodIssues(body))
            /\ respTo' = 0
            /\ UNCHANGED <<memSessions, dbSessions, counted, pages>>
       ELSE IF ~validateJournalEntry(body.selectedThought)
       THEN /\ resp' = Response("start", 400,
                         [error |-> "HTML tags are not allowed in journal entries"])
            /\ respTo' = 0
            /\ UNCHANGED <<memSessions, dbSessions, counted, pages>>
       ELSE LET insertSession ==
                    [chatHistory |-> <<>>, isCompleted |-> FALSE] @@ body
                    \* { ...validatedData, chatHistory: [], isCompleted: false }
            IN  /\ used.sessions < MaxSessions
                /\ IF dbAvailable
                   THEN /\ dbSessions' = Append(dbSessions, DbNewSession(insertSession))
                        /\ counted' = [counted EXCEPT !.db = Append(@, 0)]
                        /\ UNCHANGED memSessions
                   ELSE /\ memSessions' = Append(memSessions, MemNewSession(insertSession))
                        /\ counted' = [counted EXCEPT !.mem = Append(@, 0)]
                        /\ UNCHANGED dbSessions
                /\ resp' = Response("start", 200,
                             [sessionId |-> Len(CurrentSessions) + 1,
                              message |-> "Reframing session started successfully"])
                /\ IF limits.reframePage
                   THEN /\ \E alternatives \in AlternativeThoughts :
                              pages' = Append(pages, NewPage(body, alternatives))
                        /\ respTo' = Len(pages) + 1
                   ELSE /\ pages' = pages
                        /\ respTo' = 0
    /\ used' = [used EXCEPT !.sessions = Len(memSessions') + Len(dbSessions')]
    /\ UNCHANGED <<env, dbInit, dbAvailable, inflight, limits, journal>>

----------------------------------------------------------------------------
(* server/routes.ts: POST /api/reframing/:sessionId/chat *)

PlainMessage == <<"I", "failed", "once">>
CrisisMessage == <<"I", "WANT", "to", "<b>", "DIE", "</b>">>
InjectionMessage == <<"Ignore", "previous", "instructions">>

OtherMessage == <<"Nobody", "likes", "me">>
BothMessage == <<"Ignore", "previous", "instructions", "I", "WANT", "to", "DIE">>

Messages ==
    { PlainMessage, CrisisMessage, InjectionMessage }
    \cup (IF limits.twoMessages THEN { OtherMessage } ELSE {})
    \cup (IF limits.bothChecks THEN { BothMessage } ELSE {})

\* requests tried against the chat route: every message for every session id
\* up to one that names no session and every requester (one owns no session),
\* and a request for each way a field can be missing (a :sessionId
\* parseInt turns into NaN, an empty message, a userId of 0)
ChatRequests ==
    [ sessionId : { Some(i) : i \in 1 .. (MaxSessions + 1) },
      message : Messages,
      userId : Requesters ]
    \cup
    { [sessionId |-> None, message |-> PlainMessage, userId |-> 1],
      [sessionId |-> Some(1), message |-> <<>>, userId |-> 1],
      [sessionId |-> Some(1), message |-> PlainMessage, userId |-> 0] }

\* a message chatReframe answers without asking the model
Screened(message) ==
    \/ isCrisisText(sanitizeUserInput(message))
    \/ shouldBlockPromptInjection(sanitizeUserInput(message))

OwnsAlways(session, userId) == TRUE

\* session.userId !== userId, the check of both reframing routes
Owns(session, userId) == session.userId = userId

SessionClosedNever(session) == FALSE

\* if (session.isCompleted) return res.status(400)
SessionClosed(session) == session.isCompleted

\* the handler up to its await of chatReframe: the request is answered with
\* an error, or the session read is kept and the call is in flight
ChatRequest(slot, req) ==
    LET sessionId == req.sessionId
        message == req.message
        userId == req.userId
        found == IF sessionId = None THEN None
                 ELSE getReframingSessionById(sessionId[1])
        Reject(status, error) ==
            /\ resp' = Response("chat", status, [error |-> error])
            /\ \E sender \in PagesFor(req) : respTo' = sender
            /\ UNCHANGED <<inflight, used>>
    IN  /\ resp = NoResponse
        /\ inflight[slot] = Idle
        /\ \A other \in Slots : other < slot => inflight[other] # Idle
        /\ IF sessionId = None \/ message = <<>> \/ userId = 0
           THEN Reject(400, "Missing required fields")
           ELSE IF found = None
           THEN Reject(404, "Reframing session not found")
           ELSE IF ~Owns(found[1], userId)
           THEN Reject(403, "Access denied")
           ELSE IF SessionClosed(found[1])
           THEN Reject(400, "This reframing session is already completed")
           ELSE /\ used.chats < limits.chats
                /\ Screened(message) => used.screened < limits.screened
                /\ used' = [used EXCEPT
                       !.chats = @ + 1,
                       !.screened = IF Screened(message) THEN @ + 1 ELSE @]
                /\ \E sender \in PagesFor(req) :
                     inflight' = [inflight EXCEPT ![slot] =
                       [ state |-> "awaiting", req |-> req, session |-> found[1],
                         chatHistory |->
                             [i \in 1 .. Len(found[1].chatHistory) |->
                                 JSONparse(found[1].chatHistory[i])],
                         page |-> sender ]]
                /\ UNCHANGED <<resp, respTo>>
        /\ UNCHANGED <<env, dbInit, dbAvailable, memSessions, dbSessions, pages,
                       counted, limits, journal>>

\* the updates object built from the response of chatReframe
ChatUpdatesNeverCompletes(session, chatHistory, message, response) ==
    LET updatedHistory ==
            chatHistory \o << [role |-> "user", content |-> message],
                              [role |-> "assistant", content |-> response.message[1]] >>
    IN  [ chatHistory |->
              [i \in 1 .. Len(updatedHistory) |-> JSONstringify(updatedHistory[i])],
          turnCount |-> Some(OrElse(session.turnCount, 0) + 1) ]

ChatUpdatesUserOnly(session, chatHistory, message, response) ==
    LET updatedHistory == chatHistory \o << [role |-> "user", content |-> message] >>
    IN  [ chatHistory |->
              [i \in 1 .. Len(updatedHistory) |-> JSONstringify(updatedHistory[i])],
          turnCount |-> Some(OrElse(session.turnCount, 0) + 1) ]

ChatUpdatesCompletesOnFlag(session, chatHistory, message, response) ==
    LET updatedHistory ==
            chatHistory \o << [role |-> "user", content |-> message],
                              [role |-> "assistant", content |-> response.message[1]] >>
        base ==
            [ chatHistory |->
                  [i \in 1 .. Len(updatedHistory) |-> JSONstringify(updatedHistory[i])],
              turnCount |-> Some(OrElse(session.turnCount, 0) + 1) ]
    IN  IF TruthyBool(Prop(response, "isComplete"))
        THEN base @@ [ isCompleted |-> TRUE,
                       finalReframedThought |-> Prop(response, "finalReframedThought"),
                       completedAt |-> Some("date") ]
        ELSE base

\* the updates object the chat handler builds from chatReframe's answer
ChatUpdates(session, chatHistory, message, response) ==
    LET newUserMessage == [role |-> "user", content |-> message]
        newAssistantMessage ==
            [role |-> "assistant", content |-> response.message[1]]
        updatedHistory ==
            chatHistory \o <<newUserMessage, newAssistantMessage>>
        base ==
            [ chatHistory |->
                  [i \in 1 .. Len(updatedHistory) |-> JSONstringify(updatedHistory[i])],
              turnCount |-> Some(OrElse(session.turnCount, 0) + 1) ]
    IN  IF TruthyBool(Prop(response, "isComplete"))
           /\ TruthyText(Prop(response, "finalReframedThought"))
        THEN base @@ [ isCompleted |-> TRUE,
                       finalReframedThought |-> response.finalReframedThought,
                       completedAt |-> Some("date") ]
        ELSE base

\* the body of the 200 answer
ChatBody(session, updates, response) ==
    [ message |-> response.message,
      isComplete |-> Prop(response, "isComplete"),
      finalReframedThought |-> Prop(response, "finalReframedThought"),
      showPacingOptions |-> Prop(response, "showPacingOptions"),
      reachedTurnLimit |-> Prop(response, "reachedTurnLimit"),
      turnCount |-> updates.turnCount[1],
      maxTurns |-> OrElse(session.maxTurns, 12) ]

\* the handler from the return of chatReframe to its answer
ChatRespond(slot, adapter) ==
    LET call == inflight[slot]
        session == call.session
        sessionId == call.req.sessionId[1]
        message == call.req.message
        args == << session.selectedThought, session.distortionType,
                   session.reframingMethod, message, call.chatHistory,
                   OrElse(session.turnCount, 0), OrElse(session.maxTurns, 12),
                   None, 0 >>
        result == chatReframe(args[1], args[2], args[3], args[4], args[5],
                              args[6], args[7], adapter)
    IN  /\ resp = NoResponse
        /\ call # Idle
        /\ IF adapter.kind = "json" /\ TruthyText(adapter.parsed.message)
           THEN UNCHANGED used
           ELSE /\ used.failures < limits.failures
                /\ used' = [used EXCEPT !.failures = @ + 1]
        /\ inflight' = [inflight EXCEPT ![slot] = Idle]
        /\ respTo' = call.page
        /\ IF result.threw
           THEN /\ resp' =
                     IF result.error = "Daily AI usage limit reached. Please try again tomorrow."
                     THEN Logged(Response("chat", 429, [error |-> result.error]),
                                 {result.error})
                     ELSE Logged(Response("chat", 500,
                                     [error |-> "Failed to process reframing chat"]),
                                 {result.error})
                /\ UNCHANGED <<memSessions, dbSessions, counted>>
           ELSE LET response == result.value
                    updates == ChatUpdates(session, call.chatHistory, message, response)
                    table == IF dbAvailable THEN "db" ELSE "mem"
                    count == sessionId \in DOMAIN CurrentSessions /\ ~Screened(message)
                IN  /\ IF dbAvailable
                       THEN /\ dbSessions' = UpdateIn(dbSessions, sessionId, updates)
                            /\ UNCHANGED memSessions
                       ELSE /\ memSessions' = UpdateIn(memSessions, sessionId, updates)
                            /\ UNCHANGED dbSessions
                    /\ counted' =
                          IF count
                          THEN [counted EXCEPT ![table][sessionId] = @ + 1]
                          ELSE counted
                    /\ resp' = Response("chat", 200,
                                        ChatBody(session, updates, response))
        /\ UNCHANGED <<env, dbInit, dbAvailable, pages, limits, journal>>

\* requests tried against GET /api/reframing/:sessionId: parseInt gives NaN
\* (None) or a number for the path parameter and for the userId of the query
DetailRequests ==
    [ sessionId : { None } \cup { Some(i) : i \in 1 .. (MaxSessions + 1) },
      userId : { None } \cup { Some(u) : u \in Requesters \cup { 0 } } ]

\* GET /api/reframing/:sessionId: the session with its parsed history
SessionDetail(req) ==
    LET found == IF req.sessionId = None THEN None
                 ELSE getReframingSessionById(req.sessionId[1])
    IN  /\ resp = NoResponse
        /\ resp' =
             IF req.sessionId = None \/ req.userId = None
             THEN Response("detail", 400, [error |-> "Invalid session ID or user ID"])
             ELSE IF found = None
             THEN Response("detail", 404, [error |-> "Reframing session not found"])
             ELSE IF ~Owns(found[1], req.userId[1])
             THEN Response("detail", 403, [error |-> "Access denied"])
             ELSE Response("detail", 200,
                           [found[1] EXCEPT !.chatHistory =
                               [i \in 1 .. Len(@) |-> JSONparse(@[i])]])
        /\ respTo' = 0
        /\ UNCHANGED <<env, dbInit, dbAvailable, memSessions, dbSessions, inflight,
                       pages, counted, used, limits, journal>>

\* res.json(...) / res.status(...).json(...): the client reads the answer
ClientReceives ==
    /\ resp # NoResponse
    /\ resp' = NoResponse
    /\ respTo' = 0
    /\ pages' =
          IF respTo = 0 \/ pages[respTo].location # "/reframe" THEN pages
          ELSE [pages EXCEPT ![respTo] =
                  IF resp.route = "start" THEN StartOnSuccess(@, resp.body)
                  ELSE IF resp.status = 200 THEN SendOnSuccess(@, resp.body)
                  ELSE SendOnError(@)]
    /\ UNCHANGED <<env, dbInit, dbAvailable, memSessions, dbSessions, inflight,
                   counted, used, limits, journal>>

\* handleKeepReframing: button A of the pacing menu
KeepReframing(p) ==
    /\ resp = NoResponse
    /\ "keepReframing" \in MenuShown(pages[p])
    /\ pages' = [pages EXCEPT ![p].showPacingOptions = FALSE]
    /\ UNCHANGED <<env, dbInit, dbAvailable, memSessions, dbSessions, inflight,
                   resp, respTo, counted, used, limits, journal>>

\* handleTryDifferent: button B of the pacing menu, back to the journal page
TryDifferent(p) ==
    /\ resp = NoResponse
    /\ "differentThought" \in MenuShown(pages[p])
    /\ pages' = [pages EXCEPT ![p].location = "/session"]
    /\ UNCHANGED <<env, dbInit, dbAvailable, memSessions, dbSessions, inflight,
                   resp, respTo, counted, used, limits, journal>>

\* handleCreateVisualization: button C of the pacing menu
CreateVisualization(p) ==
    /\ resp = NoResponse
    /\ "createVisualization" \in MenuShown(pages[p])
    /\ pages' = [pages EXCEPT ![p].toast = "Visualization Coming Soon"]
    /\ UNCHANGED <<env, dbInit, dbAvailable, memSessions, dbSessions, inflight,
                   resp, respTo, counted, used, limits, journal>>

\* the Back button of the header: window.history.back() leaves the page
Back(p) ==
    /\ resp = NoResponse
    /\ pages[p].location = "/reframe"
    /\ pages' = [pages EXCEPT ![p].location = "back"]
    /\ UNCHANGED <<env, dbInit, dbAvailable, memSessions, dbSessions, inflight,
                   resp, respTo, counted, used, limits, journal>>

----------------------------------------------------------------------------
(* server/routes.ts: POST /api/sessions/analyze *)

\* String.prototype.length, in characters
TokLen(tok) ==
    CASE tok = "I" -> 1
      [] tok = "always" -> 6
      [] tok = "fail" -> 4
      [] tok = "<b>" -> 3
      [] tok = "</b>" -> 4
      [] tok = Blank -> 1

RECURSIVE length(_)
length(text) ==
    IF text = <<>> THEN 0
    ELSE TokLen(Head(text)) + length(Tail(text))
         + (IF /\ Len(text) > 1
               /\ ~IsTag(text[1]) /\ text[1] # Blank
               /\ ~IsTag(text[2]) /\ text[2] # Blank
            THEN 1 ELSE 0)

JournalEntry == <<"I", "always", "fail">>
ShortEntry == <<"fail">>
TaggedEntry == <<"<b>", "I", "always", "fail", "</b>">>

\* request bodies tried against the analyze route
AnalyzeBodies ==
    [ journalEntry : { JournalEntry, ShortEntry, TaggedEntry },
      userId : { None } \cup { Some(u) : u \in Users } ]

\* what analyzeJournalEntry resolves to: it throws, or it returns an analysis
AnalysisOutcomes == { "throws", "analysis" }

AnalyzeSlots == 1 .. AnalyzeInFlight

\* DynamicStorage: the journal table the call is dispatched to
CurrentJournal == IF dbAvailable THEN journal.db ELSE journal.mem

\* getJournalSessionsByUserId(userId)
getJournalSessionsByUserId(userId) ==
    SelectSeq(CurrentJournal, LAMBDA session : session.userId = Some(userId))

\* the handler up to its await of analyzeJournalEntry
AnalyzeRequest(slot, body) ==
    LET Reject(status, message) ==
            /\ resp' = Response("analyze", status, [message |-> message])
            /\ UNCHANGED journal
    IN  /\ resp = NoResponse
        /\ journal.analyzing[slot] = Idle
        /\ \A other \in AnalyzeSlots : other < slot => journal.analyzing[other] # Idle
        /\ IF length(body.journalEntry) < 10
           THEN Reject(400, "Invalid request data")
           ELSE IF ~env.OPENAI_API_KEY
           THEN Reject(500, "OpenAI API not configured")
           ELSE IF ~validateJournalEntry(body.journalEntry)
           THEN Reject(400, "HTML tags are not allowed in journal entries")
           ELSE IF /\ TruthyNum(body.userId)
                   /\ hasReachedSessionLimit(Len(getJournalSessionsByUserId(body.userId[1])))
           THEN Reject(429, "Session limit reached. Please delete some sessions or upgrade your account.")
           ELSE /\ body.userId = None =>
                      Cardinality({ i \in DOMAIN journal.mem : journal.mem[i].userId = None })
                      + Cardinality({ i \in DOMAIN journal.db : journal.db[i].userId = None })
                      + Cardinality({ other \in AnalyzeSlots :
                                        /\ journal.analyzing[other] # Idle
                                        /\ journal.analyzing[other].body.userId = None })
                      < AnonymousAnalyses
                /\ journal' = [journal EXCEPT !.analyzing[slot] =
                                  [state |-> "awaiting", body |-> body]]
                /\ UNCHANGED resp
        /\ respTo' = 0
        /\ UNCHANGED <<env, dbInit, dbAvailable, memSessions, dbSessions, inflight,
                       pages, counted, used, limits>>

\* MemStorage / DatabaseStorage.createJournalSession
NewJournalSession(body) ==
    [ userId |-> IF TruthyNum(body.userId) THEN body.userId ELSE None,
      journalEntry |-> body.journalEntry ]

\* the handler from the return of analyzeJournalEntry to its answer
AnalyzeRespond(slot, outcome) ==
    LET call == journal.analyzing[slot]
    IN  /\ resp = NoResponse
        /\ call # Idle
        /\ IF outcome = "throws"
           THEN /\ journal' = [journal EXCEPT !.analyzing[slot] = Idle]
                /\ resp' = Logged(Response("analyze", 500,
                                           [message |-> "Failed to analyze journal entry"]),
                                  {"Failed to analyze journal entry"})
           ELSE /\ journal' =
                      IF dbAvailable
                      THEN [journal EXCEPT !.analyzing[slot] = Idle,
                                           !.db = Append(@, NewJournalSession(call.body))]
                      ELSE [journal EXCEPT !.analyzing[slot] = Idle,
                                           !.mem = Append(@, NewJournalSession(call.body))]
                /\ resp' = Response("analyze", 200,
                                    [sessionId |-> Len(CurrentJournal) + 1])
        /\ respTo' = 0
        /\ UNCHANGED <<env, dbInit, dbAvailable, memSessions, dbSessions, inflight,
                       pages, counted, used, limits>>

----------------------------------------------------------------------------
(* The system *)

InitWith(lim) ==
    /\ limits = lim
    /\ env \in [OPENAI_API_KEY : BOOLEAN]
    /\ dbInit = "pending"
    /\ dbAvailable = FALSE
    /\ memSessions = <<>>
    /\ dbSessions = <<>>
    /\ inflight = [slot \in 1 .. lim.inflight |-> Idle]
    /\ resp = NoResponse
    /\ respTo = 0
    /\ pages = <<>>
    /\ counted = [mem |-> <<>>, db |-> <<>>]
    /\ used = [sessions |-> 0, chats |-> 0, screened |-> 0, failures |-> 0]
    /\ journal = [ mem |-> <<>>, db |-> <<>>,
                   analyzing |-> [slot \in 1 .. AnalyzeInFlight |-> Idle] ]

Next ==
    \/ InitializeDatabase
    \/ \E body \in StartBodies : StartSession(body)
    \/ \E slot \in Slots, req \in ChatRequests : ChatRequest(slot, req)
    \/ \E slot \in Slots, adapter \in AdapterOutcomes : ChatRespond(slot, adapter)
    \/ ClientReceives

Init == InitWith(WideLimits)
Spec == Init /\ [][Next]_vars

InitDeep == InitWith(DeepLimits)
SpecDeep == InitDeep /\ [][Next]_vars

InitStart == InitWith(StartLimits)
SpecStart == InitStart /\ [][Next]_vars

InitScreen == InitWith(ScreenLimits)
SpecScreen == InitScreen /\ [][Next]_vars

InitPair == InitWith(PairLimits)
SpecPair == InitPair /\ [][Next]_vars

\* the routes together with the buttons of the pacing menu
NextPage ==
    \/ Next
    \/ \E p \in DOMAIN pages : KeepReframing(p)
    \/ \E p \in DOMAIN pages : TryDifferent(p)
    \/ \E p \in DOMAIN pages : CreateVisualization(p)
    \/ \E p \in DOMAIN pages : Back(p)

InitPage == InitWith(PageLimits)
SpecPage == InitPage /\ [][NextPage]_vars

\* the reframing routes together with the session-detail route
NextDetail ==
    \/ Next
    \/ \E req \in DetailRequests : SessionDetail(req)

SpecDetail == Init /\ [][NextDetail]_vars

\* the analyze route
NextAnalyze ==
    \/ InitializeDatabase
    \/ \E slot \in AnalyzeSlots, body \in AnalyzeBodies : AnalyzeRequest(slot, body)
    \/ \E slot \in AnalyzeSlots, outcome \in AnalysisOutcomes : AnalyzeRespond(slot, outcome)
    \/ ClientReceives

SpecAnalyze == Init /\ [][NextAnalyze]_vars

InitPageDeep == InitWith(PageDeepLimits)
SpecPageDeep == InitPageDeep /\ [][NextPage]_vars

----------------------------------------------------------------------------
(* What the properties below speak about *)

StoredSessions ==
    { memSessions[i] : i \in DOMAIN memSessions }
    \cup { dbSessions[i] : i \in DOMAIN dbSessions }

\* session.turnCount || 0, as the routes read it
TurnCountOf(session) == OrElse(session.turnCount, 0)

ClosedError == "This reframing session is already completed"

ChatAnswered == resp.route = "chat" /\ resp.status = 200

\* the adapter outcomes that make the try block of chatReframe throw
AdapterFails(adapter) ==
    adapter.kind # "json" \/ adapter.parsed.message \in { None, Some(<<>>) }

UserEntry(message) == JSONstringify([role |-> "user", content |-> message])
AssistantEntry(message) == JSONstringify([role |-> "assistant", content |-> message])

----------------------------------------------------------------------------
(* C1: for every session, turnCount equals the number N of chat calls that *)
(* were answered 200 and were not screened (neither crisis nor prompt      *)
(* injection), and the history holds 2N entries: screened calls add        *)
(* nothing.                                                                *)
C1_TurnCountIsUnscreenedCalls ==
    /\ \A i \in DOMAIN memSessions :
          /\ TurnCountOf(memSessions[i]) = counted.mem[i]
          /\ Len(memSessions[i].chatHistory) = 2 * counted.mem[i]
    /\ \A i \in DOMAIN dbSessions :
          /\ TurnCountOf(dbSessions[i]) = counted.db[i]
          /\ Len(dbSessions[i].chatHistory) = 2 * counted.db[i]

(* C2: a chat call on a session that is already completed is answered with *)
(* the SessionClosed rejection (400) and leaves every stored session, its   *)
(* history, turnCount and finalReframedThought included, as it was; so does *)
(* every repetition of the call.                                            *)
C2_CompletedSessionRejects ==
    [][ \A slot \in Slots, req \in ChatRequests :
          ( /\ req.sessionId # None /\ req.message # <<>> /\ req.userId # 0
            /\ req.sessionId[1] \in DOMAIN CurrentSessions
            /\ CurrentSessions[req.sessionId[1]].userId = req.userId
            /\ CurrentSessions[req.sessionId[1]].isCompleted
            /\ ChatRequest(slot, req) )
          => ( /\ resp' = Response("chat", 400, [error |-> ClosedError])
               /\ UNCHANGED <<memSessions, dbSessions, inflight>> ) ]_vars

C2_Witness ==
    /\ resp = Response("chat", 400, [error |-> ClosedError])
    /\ \E s \in StoredSessions :
          s.isCompleted /\ TurnCountOf(s) >= 1 /\ s.finalReframedThought # None

(* C3: in every reachable state the turnCount of every session is at most *)
(* maxTurns / 2 = 6.                                                       *)
C3_TurnCountAtMostSix ==
    \A s \in StoredSessions :
        2 * TurnCountOf(s) <= OrElse(s.maxTurns, maxTurnsDefault)

(* C4: the answer to the 6th exchange of a session has reachedTurnLimit =  *)
(* true, isComplete = true and a non-empty finalReframedThought, and       *)
(* leaves the session completed, whatever the model returned.              *)
C4_SixthExchangeCompletes ==
    (ChatAnswered /\ 2 * resp.body.turnCount = resp.body.maxTurns)
    => /\ TruthyBool(resp.body.reachedTurnLimit)
       /\ TruthyBool(resp.body.isComplete)
       /\ TruthyText(resp.body.finalReframedThought)
       /\ \A s \in StoredSessions :
             TurnCountOf(s) = resp.body.turnCount => s.isCompleted

(* C5: a chat call whose text triggers the crisis check is answered with   *)
(* the fixed crisis message and leaves the stored sessions (turnCount,     *)
(* history, status) as they were.                                          *)
C5_CrisisLeavesSessionUnchanged ==
    [][ \A slot \in Slots, adapter \in AdapterOutcomes :
          ( /\ ChatRespond(slot, adapter)
            /\ env.OPENAI_API_KEY
            /\ isCrisisText(sanitizeUserInput(inflight[slot].req.message)) )
          => ( /\ resp'.status = 200
               /\ resp'.body.message = Some(responseTemplate)
               /\ UNCHANGED <<memSessions, dbSessions>> ) ]_vars

(* C6: a chat call whose text triggers the prompt-injection check is       *)
(* answered with the generic re-prompt message and leaves the stored       *)
(* sessions (history, turnCount, status) as they were.                     *)
C6_InjectionLeavesSessionUnchanged ==
    [][ \A slot \in Slots, adapter \in AdapterOutcomes :
          ( /\ ChatRespond(slot, adapter)
            /\ env.OPENAI_API_KEY
            /\ ~isCrisisText(sanitizeUserInput(inflight[slot].req.message))
            /\ shouldBlockPromptInjection(
                   sanitizeUserInput(inflight[slot].req.message)) )
          => ( /\ resp'.status = 200
               /\ resp'.body.message = Some(RepromptMessage)
               /\ UNCHANGED <<memSessions, dbSessions>> ) ]_vars

(* C7: the answer to a chat call asks for the pacing menu                  *)
(* (showPacingOptions = true) if and only if the turnCount after the call  *)
(* is a positive multiple of 3.                                            *)
C7_PacingMenuEveryThirdTurn ==
    ChatAnswered
    => ( TruthyBool(resp.body.showPacingOptions)
         <=> (resp.body.turnCount > 0 /\ resp.body.turnCount % 3 = 0) )

(* C8: when the call to the model fails, times out or returns something   *)
(* unusable, the chat call is still answered 200 with the fixed fallback   *)
(* message and isComplete = false; the session keeps its status, the       *)
(* user's message and the fallback are appended to the history the handler *)
(* read, and turnCount is one more than the handler read.                  *)
C8_AdapterFailureFallsBack ==
    [][ \A slot \in Slots, adapter \in AdapterOutcomes :
          ( /\ env.OPENAI_API_KEY
            /\ AdapterFails(adapter)
            /\ inflight[slot] # Idle
            /\ ~isCrisisText(sanitizeUserInput(inflight[slot].req.message))
            /\ ~shouldBlockPromptInjection(
                   sanitizeUserInput(inflight[slot].req.message))
            /\ ChatRespond(slot, adapter) )
          => LET call == inflight[slot]
                 id == call.req.sessionId[1]
                 turn == TurnCountOf(call.session) + 1
             IN  /\ resp'.status = 200
                 /\ resp'.body.message = Some(FallbackMessage)
                 /\ ~TruthyBool(resp'.body.isComplete)
                 /\ resp'.body.turnCount = turn
                 /\ id \in DOMAIN CurrentSessions =>
                       /\ CurrentSessions'[id].isCompleted
                              = CurrentSessions[id].isCompleted
                       /\ CurrentSessions'[id].turnCount = Some(turn)
                       /\ CurrentSessions'[id].chatHistory
                              = [i \in 1 .. Len(call.chatHistory) |->
                                     JSONstringify(call.chatHistory[i])]
                                \o << UserEntry(call.req.message),
                                      AssistantEntry(FallbackMessage) >> ]_vars

C8_Witness ==
    /\ ChatAnswered
    /\ resp.body.message = Some(FallbackMessage)
    /\ resp.body.turnCount = 2
    /\ \E s \in StoredSessions :
          /\ ~s.isCompleted
          /\ s.turnCount = Some(2)
          /\ Len(s.chatHistory) = 4
          /\ s.chatHistory[3] = UserEntry(PlainMessage)
          /\ s.chatHistory[4] = AssistantEntry(FallbackMessage)

(* C9: every completed session has a non-empty finalReframedThought and a  *)
(* completedAt that is set.                                                *)
C9_CompletedHasThoughtAndDate ==
    \A s \in StoredSessions :
        s.isCompleted =>
            TruthyText(s.finalReframedThought) /\ s.completedAt # None

C9_Witness ==
    \E s \in StoredSessions :
        /\ s.isCompleted
        /\ s.finalReframedThought = Some(ModelReframe)
        /\ s.completedAt # None

(* C10: the reframingMethod and the selectedThought of a session never     *)
(* change after the session is created.                                    *)
C10_MethodAndThoughtFixed ==
    [][ /\ \A i \in DOMAIN memSessions :
              /\ memSessions'[i].reframingMethod = memSessions[i].reframingMethod
              /\ memSessions'[i].selectedThought = memSessions[i].selectedThought
        /\ \A i \in DOMAIN dbSessions :
              /\ dbSessions'[i].reframingMethod = dbSessions[i].reframingMethod
              /\ dbSessions'[i].selectedThought = dbSessions[i].selectedThought ]_vars

C10_Witness ==
    \E s \in StoredSessions :
        /\ TurnCountOf(s) = 2
        /\ s.isCompleted
        /\ s.reframingMethod = "evidenceCheck"
        /\ s.selectedThought \in {Thought, StripTags(TaggedThought)}

(* C11: a start request with a non-empty selectedThought and a method of   *)
(* the enumeration that is answered with a session id has created a        *)
(* session that is active, has turnCount = 0 and an empty history,         *)
(* whatever else the request body carries.                                 *)
C11_StartedSessionIsFresh ==
    [][ \A body \in StartBodies :
          ( /\ body.selectedThought # <<>>
            /\ body.reframingMethod \in ReframingMethodEnum
            /\ StartSession(body)
            /\ resp'.status = 200 )
          => LET new == CurrentSessions'[resp'.body.sessionId]
             IN  /\ ~new.isCompleted
                 /\ TurnCountOf(new) = 0
                 /\ new.chatHistory = <<>> ]_vars

(* C12: a start request whose method is outside the five-member           *)
(* enumeration is rejected and creates no session: both stores are the     *)
(* same before and after the call.                                         *)
C12_InvalidMethodCreatesNothing ==
    [][ \A body \in StartBodies :
          ( /\ body.reframingMethod \notin ReframingMethodEnum
            /\ StartSession(body) )
          => ( /\ resp'.route = "start"
               /\ resp'.status >= 400
               /\ UNCHANGED <<memSessions, dbSessions>> ) ]_vars

C12_Witness ==
    /\ resp.route = "start"
    /\ resp.status = 500
    /\ resp.logged = {"reframingMethod"}

(* C13: for one session at most one chat call is in flight at a time: no   *)
(* two handlers are suspended at the model call for the same session, so   *)
(* no two calls start from the same stored turnCount and history.          *)
C13_OneCallInFlightPerSession ==
    \A a \in Slots, b \in Slots :
        (a # b /\ inflight[a] # Idle /\ inflight[b] # Idle)
        => inflight[a].req.sessionId # inflight[b].req.sessionId

(* C14: completed is terminal: no step, of a call that was in flight when  *)
(* the session completed included, changes the history, turnCount,         *)
(* finalReframedThought, completedAt or status of a completed session.     *)
C14_CompletedIsTerminal ==
    [][ /\ \A i \in DOMAIN memSessions :
              memSessions[i].isCompleted => memSessions'[i] = memSessions[i]
        /\ \A i \in DOMAIN dbSessions :
              dbSessions[i].isCompleted => dbSessions'[i] = dbSessions[i] ]_vars

(* C15: a chat call that was accepted (existing session, its owner, not    *)
(* completed) is never answered with an error: whatever fails in the model *)
(* layer (no model configuration, usage limit, adapter error, unparseable  *)
(* output), the answer is a 200 that carries a substitute message.         *)
C15_ModelFailuresAnsweredInBand ==
    [][ \A slot \in Slots, adapter \in AdapterOutcomes :
          (inflight[slot] # Idle /\ ChatRespond(slot, adapter))
          => (resp'.status = 200 /\ TruthyText(resp'.body.message)) ]_vars

(* C17: below the turn ceiling, a chat call answered 200 moves an active   *)
(* session to completed exactly when the model's result has isComplete =   *)
(* true and a non-empty finalReframedThought; the stored                   *)
(* finalReframedThought is then the model's and completedAt is set in the  *)
(* same update.                                                            *)
C17_CompletesExactlyOnModelSignal ==
    [][ \A slot \in Slots, adapter \in AdapterOutcomes :
          ( /\ inflight[slot] # Idle
            /\ env.OPENAI_API_KEY
            /\ inflight[slot].req.sessionId[1] \in DOMAIN CurrentSessions
            /\ ~CurrentSessions[inflight[slot].req.sessionId[1]].isCompleted
            /\ 2 * (TurnCountOf(inflight[slot].session) + 1) < maxTurnsDefault
            /\ ChatRespond(slot, adapter) )
          => LET id == inflight[slot].req.sessionId[1]
                 signalled ==
                     /\ ~AdapterFails(adapter)
                     /\ ~Screened(inflight[slot].req.message)
                     /\ adapter.parsed.isComplete = Some(TRUE)
                     /\ adapter.parsed.finalReframedThought \notin {None, Some(<<>>)}
             IN  /\ CurrentSessions'[id].isCompleted <=> signalled
                 /\ signalled =>
                       /\ CurrentSessions'[id].finalReframedThought
                              = adapter.parsed.finalReframedThought
                       /\ CurrentSessions'[id].completedAt # None
                 /\ ~signalled =>
                       /\ CurrentSessions'[id].finalReframedThought
                              = CurrentSessions[id].finalReframedThought
                       /\ CurrentSessions'[id].completedAt = None ]_vars

C17_Witness ==
    /\ ChatAnswered
    /\ resp.body.isComplete = Some(TRUE)
    /\ resp.body.finalReframedThought = Some(ModelReframe)
    /\ resp.body.turnCount = 2
    /\ \E s \in StoredSessions :
          /\ s.isCompleted
          /\ s.turnCount = Some(2)
          /\ s.finalReframedThought = Some(ModelReframe)
          /\ s.completedAt = Some("date")

(* C18: every step that moves a stored session into completed answers an   *)
(* open Reframe page whose thought and distortion are the session's, with  *)
(* isComplete and the stored finalReframedThought; and the page that       *)
(* handles such an answer displays the completion summary                  *)
(* { originalThought, distortionType, finalReframedThought, affirmation }  *)
(* with those values.  No session becomes completed without it.            *)
C18_CompletionProducesSummary ==
    [][ /\ \A id \in DOMAIN memSessions \cup DOMAIN dbSessions :
             LET completedIn(before, after) ==
                     /\ id \in DOMAIN before
                     /\ ~before[id].isCompleted
                     /\ after[id].isCompleted
                 stored == IF completedIn(dbSessions, dbSessions')
                           THEN dbSessions'[id] ELSE memSessions'[id]
             IN  ( \/ completedIn(memSessions, memSessions')
                   \/ completedIn(dbSessions, dbSessions') )
                 => /\ resp'.route = "chat"
                    /\ resp'.status = 200
                    /\ TruthyBool(resp'.body.isComplete)
                    /\ resp'.body.finalReframedThought = stored.finalReframedThought
                    /\ respTo' \in DOMAIN pages
                    /\ pages[respTo'].location = "/reframe"
                    /\ pages[respTo'].thought = stored.selectedThought
                    /\ pages[respTo'].distortion = stored.distortionType
        /\ \A p \in DOMAIN pages :
             ( /\ respTo = p
               /\ resp.route = "chat"
               /\ resp.status = 200
               /\ TruthyBool(resp.body.isComplete)
               /\ TruthyText(resp.body.finalReframedThought)
               /\ pages[p].location = "/reframe"
               /\ ClientReceives )
             => SummaryShown(pages'[p])
                    = Some(CompletionSummaryCard(pages[p].thought,
                                                 pages[p].distortion,
                                                 resp.body.finalReframedThought[1]))
      ]_vars

(* C19: when the pacing menu is displayed and the caller chooses "create   *)
(* visualization", the session of the page is completed in that step and   *)
(* the page displays the completion summary.                               *)
C19_VisualizationCompletes ==
    [][ \A p \in DOMAIN pages :
          ( /\ "createVisualization" \in MenuShown(pages[p])
            /\ CreateVisualization(p) )
          => LET found == getReframingSessionById(pages[p].reframingSessionId[1])'
             IN  /\ found # None
                 /\ found[1].isCompleted
                 /\ SummaryShown(pages'[p]) # None ]_vars

(* C20: a pacing menu displayed on a page whose caller has no alternative  *)
(* thought left (hasAlternativeThoughts = false) does not offer "different *)
(* thought": it offers keep reframing and visualization only.              *)
C20_NoDifferentThoughtWithoutAlternatives ==
    \A p \in DOMAIN pages :
        (MenuShown(pages[p]) # {} /\ ~pages[p].hasAlternativeThoughts)
        => MenuShown(pages[p]) \subseteq { "keepReframing", "createVisualization" }

(* C21: once a Reframe page has been answered its 6th exchange (12 entries: *)
(* 6 user messages and 6 replies), the reframe is concluded: the session it *)
(* shows is completed or the pacing menu is displayed, and the menu never   *)
(* offers "keep reframing": it offers "different thought" and "create       *)
(* visualization" only.                                                     *)
C21_NoKeepReframingAtTheLimit ==
    \A p \in DOMAIN pages :
        ( /\ SessionShown(pages[p])
          /\ 2 * pages[p].currentTurnCount >= maxTurnsDefault )
        => /\ pages[p].session[1].isCompleted \/ MenuShown(pages[p]) # {}
           /\ MenuShown(pages[p]) \subseteq { "differentThought", "createVisualization" }

(* C22: a user never has more than 20 saved journal sessions: in each       *)
(* backend, whatever requests overlap, the stored journal sessions of one   *)
(* userId number at most 20; and an analyze request made when the user      *)
(* already has 20 is answered 429 and creates no session.                   *)
C22_AtMostTwentyJournalSessions ==
    [][ /\ \A u \in Users :
             /\ Len(SelectSeq(journal.mem', LAMBDA session : session.userId = Some(u)))
                    <= maxSavedSessionsPerUser
             /\ Len(SelectSeq(journal.db', LAMBDA session : session.userId = Some(u)))
                    <= maxSavedSessionsPerUser
        /\ \A slot \in AnalyzeSlots, body \in AnalyzeBodies :
             ( /\ body.userId # None
               /\ length(body.journalEntry) >= 10
               /\ env.OPENAI_API_KEY
               /\ validateJournalEntry(body.journalEntry)
               /\ Len(getJournalSessionsByUserId(body.userId[1])) >= maxSavedSessionsPerUser
               /\ AnalyzeRequest(slot, body) )
             => /\ resp'.status = 429
                /\ journal' = journal
      ]_vars

(* C23: in every reachable state the history of every stored session       *)
(* strictly alternates user and assistant entries and starts with a user   *)
(* entry, so its length is even.                                           *)
C23_HistoryAlternates ==
    \A session \in StoredSessions :
        /\ Len(session.chatHistory) % 2 = 0
        /\ \A i \in DOMAIN session.chatHistory :
              JSONparse(session.chatHistory[i]).role
                  = IF i % 2 = 1 THEN "user" ELSE "assistant"

C23_Witness ==
    \E session \in StoredSessions :
        /\ Len(session.chatHistory) = 4
        /\ session.chatHistory[1] # session.chatHistory[3]

(* C24: history is append-only and turnCount is monotonic: every step that *)
(* updates a stored session, whatever calls overlap, stores a history that *)
(* has the previously stored history as a prefix and a turnCount not lower *)
(* than the previously stored one.                                         *)
C24_HistoryAppendOnly ==
    [][ /\ \A id \in DOMAIN memSessions :
             /\ Len(memSessions'[id].chatHistory) >= Len(memSessions[id].chatHistory)
             /\ SubSeq(memSessions'[id].chatHistory, 1, Len(memSessions[id].chatHistory))
                    = memSessions[id].chatHistory
             /\ TurnCountOf(memSessions'[id]) >= TurnCountOf(memSessions[id])
        /\ \A id \in DOMAIN dbSessions :
             /\ Len(dbSessions'[id].chatHistory) >= Len(dbSessions[id].chatHistory)
             /\ SubSeq(dbSessions'[id].chatHistory, 1, Len(dbSessions[id].chatHistory))
                    = dbSessions[id].chatHistory
             /\ TurnCountOf(dbSessions'[id]) >= TurnCountOf(dbSessions[id])
      ]_vars

(* C25: a chat request (with its required fields) or a session-detail      *)
(* request that names a stored session and carries a userId other than the *)
(* session's is answered 403, puts no call of the model in flight and      *)
(* leaves every session record unchanged; and an answer 200 of either      *)
(* route, which carries content of the session, goes only to a request     *)
(* carrying the userId of the session.                                     *)
C25_OnlyTheOwnerIsServed ==
    [][ /\ \A slot \in Slots, req \in ChatRequests :
             ( /\ inflight[slot] = Idle
               /\ req.sessionId # None /\ req.message # <<>> /\ req.userId # 0
               /\ getReframingSessionById(req.sessionId[1]) # None
               /\ getReframingSessionById(req.sessionId[1])[1].userId # req.userId
               /\ ChatRequest(slot, req) )
             => /\ resp'.status = 403
                /\ resp'.body = [error |-> "Access denied"]
                /\ UNCHANGED <<inflight, memSessions, dbSessions>>
        /\ \A req \in DetailRequests :
             ( /\ req.sessionId # None /\ req.userId # None
               /\ getReframingSessionById(req.sessionId[1]) # None
               /\ getReframingSessionById(req.sessionId[1])[1].userId # req.userId[1]
               /\ SessionDetail(req) )
             => /\ resp'.status = 403
                /\ resp'.body = [error |-> "Access denied"]
                /\ UNCHANGED <<inflight, memSessions, dbSessions>>
        /\ \A req \in DetailRequests :
             (SessionDetail(req) /\ resp'.status = 200)
             => resp'.body.userId = req.userId[1]
        /\ \A slot \in Slots :
             inflight[slot] # Idle
             => inflight[slot].req.userId = inflight[slot].session.userId
      ]_vars

C25_Witness ==
    /\ resp.status = 403
    /\ resp.route \in { "chat", "detail" }
    /\ \E session \in StoredSessions : Len(session.chatHistory) > 0

(* C26: after every chat call answered 200 the answer agrees with what was *)
(* persisted: its isComplete is true if and only if the stored session is  *)
(* completed, its finalReframedThought is then the stored one, and its     *)
(* turnCount equals the stored turnCount.                                  *)
C26_AnswerAgreesWithStore ==
    [][ \A slot \in Slots, adapter \in AdapterOutcomes :
          ( /\ inflight[slot] # Idle
            /\ inflight[slot].req.sessionId[1] \in DOMAIN CurrentSessions
            /\ ChatRespond(slot, adapter)
            /\ resp'.status = 200 )
          => LET stored == CurrentSessions'[inflight[slot].req.sessionId[1]]
             IN  /\ TruthyBool(resp'.body.isComplete) <=> stored.isCompleted
                 /\ stored.isCompleted =>
                       resp'.body.finalReframedThought = stored.finalReframedThought
                 /\ resp'.body.turnCount = TurnCountOf(stored) ]_vars

(* C27: a chat call that ends in an error answer (400 missing fields, 404  *)
(* unknown session, 403 not the owner, 400 completed, 429 usage limit, 500 *)
(* thrown by the reframing service) leaves every stored session unchanged: *)
(* no history entry is appended and turnCount is not incremented.          *)
C27_ErrorAnswersChangeNothing ==
    [][ ( /\ resp = NoResponse
          /\ resp'.route = "chat"
          /\ resp'.status # 200 )
        => /\ resp'.status \in { 400, 403, 404, 429, 500 }
           /\ UNCHANGED <<memSessions, dbSessions>> ]_vars

C27_Witness ==
    /\ resp.route = "chat"
    /\ resp.status = 429
    /\ resp.logged = { "Daily AI usage limit reached. Please try again tomorrow." }
    /\ \E session \in StoredSessions :
          session.maxTurns = Some(dailyTokenCapPerUser) /\ session.chatHistory = <<>>

(* C28: no model call is made for a screened message: when the sanitized   *)
(* text triggers the crisis check or the prompt-injection check, the       *)
(* answer of chatReframe does not depend on what the model adapter would   *)
(* give (failures included), it is the crisis response when the crisis     *)
(* check triggers, also when both checks trigger, and the re-prompt        *)
(* otherwise.                                                              *)
C28_ScreenedBeforeTheModel ==
    [][ \A slot \in Slots, adapter \in AdapterOutcomes :
          ( /\ inflight[slot] # Idle
            /\ env.OPENAI_API_KEY
            /\ OrElse(inflight[slot].session.maxTurns, 12) < dailyTokenCapPerUser
            /\ Screened(inflight[slot].req.message)
            /\ ChatRespond(slot, adapter) )
          => LET call == inflight[slot]
                 answer(outcome) ==
                     chatReframe(call.session.selectedThought, call.session.distortionType,
                                 call.session.reframingMethod, call.req.message,
                                 call.chatHistory, OrElse(call.session.turnCount, 0),
                                 OrElse(call.session.maxTurns, 12), outcome)
             IN  /\ \A outcome \in AdapterOutcomes : answer(outcome) = answer(adapter)
                 /\ resp'.status = 200
                 /\ resp'.body.message =
                        Some(IF isCrisisText(sanitizeUserInput(call.req.message))
                             THEN getCrisisResponse ELSE RepromptMessage) ]_vars

C28_Witness ==
    /\ ChatAnswered
    /\ resp.body.message = Some(getCrisisResponse)
    /\ \E session \in StoredSessions :
          /\ session.chatHistory # <<>>
          /\ session.chatHistory[Len(session.chatHistory) - 1] = UserEntry(BothMessage)

(* C29: a reframing session that createReframingSession returned stays     *)
(* retrievable: whichever backend stored it, getReframingSessionById and   *)
(* updateReframingSession with its id reach that same record, also after   *)
(* the database initialisation has switched the storage backend.           *)
C29_CreatedSessionsStayRetrievable ==
    /\ \A id \in DOMAIN memSessions :
          getReframingSessionById(id) = Some(memSessions[id])
    /\ \A id \in DOMAIN dbSessions :
          getReframingSessionById(id) = Some(dbSessions[id])

(* C30: the Reframe page never sends a chat message while a previous chat  *)
(* request of its own is pending, while it displays the pacing menu, or    *)
(* once the session it displays is completed (session.isCompleted of its   *)
(* session query): the message form is offered only when none of the three *)
(* holds, and "keep reframing" offers it again without any request to the  *)
(* server.                                                                 *)
C30_PageSendsOnlyFromTheForm ==
    [][ \A p \in DOMAIN pages :
          LET sends ==
                  \/ \E slot \in Slots :
                        /\ inflight[slot] = Idle
                        /\ inflight'[slot] # Idle
                        /\ inflight'[slot].page = p
                  \/ /\ resp = NoResponse
                     /\ resp'.route = "chat"
                     /\ respTo' = p
                     /\ inflight' = inflight
              offered(page, pending) ==
                  /\ page.location = "/reframe"
                  /\ page.session # None
                  /\ ~page.session[1].isCompleted
                  /\ ~page.showPacingOptions
                  /\ ~pending
          IN  /\ (sends \/ FormShown(p)) =>
                    /\ ~IsPending(p)
                    /\ MenuShown(pages[p]) = {}
                    /\ pages[p].session # None
                    /\ ~pages[p].session[1].isCompleted
              /\ KeepReframing(p) =>
                    /\ offered(pages'[p], IsPending(p))
                    /\ UNCHANGED <<inflight, resp, respTo, memSessions, dbSessions, used>>
      ]_vars

C30_Witness ==
    \E slot \in Slots :
        /\ inflight[slot] # Idle
        /\ inflight[slot].page # 0
        /\ pages[inflight[slot].page].currentTurnCount >= 1
        /\ ~pages[inflight[slot].page].showPacingOptions

====
